---- MODULE Spec2Model ----
(***************************************************************************)
(* A model of cgd.py: CLIP guided diffusion.                               *)
(*                                                                         *)
(*   Spec      main(): argument checks, clip_guided_diffusion(), the save  *)
(*             loop over the snapshots and its exception handler.          *)
(*   SpecGuide cond_fn(): the gradient handed to the sampling loop.        *)
(*   SpecRank  imagenet_top_n(): the class-weight table.                   *)
(*                                                                         *)
(* Python strings are sequences: of characters where the code parses them  *)
(* (timestep_respacing), of words where it only measures or searches them. *)
(* An Optional[str] is a record [isNone, val].                             *)
(***************************************************************************)
EXTENDS Integers, Sequences, FiniteSets, TLC

VARIABLES
    \* ---- main() and clip_guided_diffusion() ----
    pc,                 \* position in main()
    args,               \* the parsed arguments that main() reads again later
    exc,                \* the exception that left main(), or "none"
    failedAssert,       \* which assertion raised, or "none"
    prefixDir,          \* prefix_path.mkdir() has run
    outputsDir,         \* outputs_path.mkdir() has run
    downloaded,         \* download_guided_diffusion() has run
    clipLoaded,         \* clip.load() has run
    diffusionLoaded,    \* load_guided_diffusion() has run
    clip_scores,        \* "none" or "table": what imagenet_top_n gave
    loopKind,           \* the sampling loop that was created, or "none"
    num_timesteps,      \* diffusion.num_timesteps
    cgd_current_timestep,   \* current_timestep of clip_guided_diffusion (read by cond_fn)
    main_current_timestep,  \* current_timestep of main
    yielded,            \* snapshots the generator has yielded
    step,               \* enumerate() index of the last snapshot
    loop_t,             \* timestep the sampling loop was on in its last step
    bridge_t,           \* timestep cond_fn used in the last step
    saved,              \* step indices handed to log_image
    raised,             \* message of the RuntimeError raised in a step, or <<>>
    hintsPrinted,       \* the out-of-memory hints were printed
    outcome,            \* "running", "completed", "oom_handled", "raised"
    \* ---- cond_fn ----
    gcfg, gin, grad10, mean10,
    \* ---- imagenet_top_n ----
    rpc, rin, rout

mainVars == <<pc, args, exc, failedAssert, prefixDir, outputsDir, downloaded,
              clipLoaded, diffusionLoaded, clip_scores, loopKind, num_timesteps,
              cgd_current_timestep, main_current_timestep, yielded, step, loop_t,
              bridge_t, saved, raised, hintsPrinted, outcome>>
guideVars == <<gcfg, gin, grad10, mean10>>
rankVars == <<rpc, rin, rout>>
vars == <<mainVars, guideVars, rankVars>>

----------------------------------------------------------------------------
(* Bounds of the model *)

MaxSkip == 26           \* skip_timesteps ranges over -1 .. MaxSkip
MaxFreq == 3            \* save_frequency ranges over 0 .. MaxFreq, and 25, 26
NumClasses == 3         \* len(IMAGENET_CLASSES) in the model
MaxSim == 1             \* similarity logits range over 0 .. MaxSim
MaxGrad == 1            \* partial derivatives range over -MaxGrad .. MaxGrad

----------------------------------------------------------------------------
(* Python values *)

NoneStr == [isNone |-> TRUE, val |-> <<>>]
Some(s) == [isNone |-> FALSE, val |-> s]

\* bool(x) of an Optional[str]: None and "" are falsy
Truthy(o) == (~o.isNone) /\ Len(o.val) > 0

\* s.startswith(p)
StartsWith(s, p) == Len(s) >= Len(p) /\ SubSeq(s, 1, Len(p)) = p

\* s.replace(old, ""): every non-overlapping occurrence, left to right
RECURSIVE StrRemove(_, _)
StrRemove(s, old) ==
    IF s = <<>> THEN <<>>
    ELSE IF StartsWith(s, old) THEN StrRemove(SubSeq(s, Len(old) + 1, Len(s)), old)
    ELSE <<Head(s)>> \o StrRemove(Tail(s), old)

DigitValue(c) ==
    CASE c = "0" -> 0 [] c = "1" -> 1 [] c = "2" -> 2 [] c = "3" -> 3 [] c = "4" -> 4
      [] c = "5" -> 5 [] c = "6" -> 6 [] c = "7" -> 7 [] c = "8" -> 8 [] c = "9" -> 9

\* int(s) of a string of decimal digits
RECURSIVE ParseInt(_)
ParseInt(s) ==
    IF s = <<>> THEN 0
    ELSE 10 * ParseInt(SubSeq(s, 1, Len(s) - 1)) + DigitValue(s[Len(s)])

\* needle in haystack
Contains(haystack, needle) ==
    \E i \in 1..(Len(haystack) - Len(needle) + 1) :
        SubSeq(haystack, i, i + Len(needle) - 1) = needle

----------------------------------------------------------------------------
(* Module constants of cgd.py *)

ddim == <<"d", "d", "i", "m">>
r25 == <<"2", "5">>
r50 == <<"5", "0">>
r100 == <<"1", "0", "0">>
r250 == <<"2", "5", "0">>
r500 == <<"5", "0", "0">>
r1000 == <<"1", "0", "0", "0">>

TIMESTEP_RESPACINGS ==
    {r25, r50, r100, r250, r500, r1000,
     ddim \o r25, ddim \o r50, ddim \o r100, ddim \o r250, ddim \o r500, ddim \o r1000}
DIFFUSION_SCHEDULES == {25, 50, 100, 250, 500, 1000}
IMAGE_SIZES == {64, 128, 256, 512}
CLIP_MODEL_NAMES == {"ViT-B/16", "ViT-B/32", "RN50", "RN101", "RN50x4", "RN50x16"}

----------------------------------------------------------------------------
(* The environment: files on disk *)

ExistingFiles == {<<"seed.png">>, <<"ckpt.pt">>}
ExistingDirs == {<<"checkpoints">>}
PathExists(p) == p \in ExistingFiles \/ p \in ExistingDirs
PathIsDir(p) == p \in ExistingDirs

----------------------------------------------------------------------------
(* clip_guided_diffusion: the assertions *)

\* the assertions on the enumerations and the plain arguments; the name of the
\* first one that fails, or "ok"
AssertConfig(timestep_respacing, diffusion_steps, clip_model_name, image_size, num_cutouts, prompt, top_n, min_weight10, class_cond) ==
    IF timestep_respacing \notin TIMESTEP_RESPACINGS THEN "timestep_respacing"
    ELSE IF diffusion_steps \notin DIFFUSION_SCHEDULES THEN "diffusion_steps"
    ELSE IF clip_model_name \notin CLIP_MODEL_NAMES THEN "clip_model_name"
    ELSE IF image_size \notin IMAGE_SIZES THEN "image_size"
    ELSE IF ~(num_cutouts > 0) THEN "num_cutouts"
    ELSE IF ~(Len(prompt) > 0) THEN "prompt"
    ELSE IF ~(0 < top_n /\ top_n <= NumClasses) THEN "top_n"
    ELSE IF ~(0 <= min_weight10 /\ min_weight10 <= 10) THEN "min_weight"
    ELSE IF ~(((~class_cond) /\ image_size = 256) \/ class_cond) THEN "class_cond"
    ELSE "ok"

\* the off-by-one slip: skip_timesteps may equal the step count
SkipSeedCheckInclusive(init_image, skip_timesteps, timestep_respacing) ==
    IF Truthy(init_image)
    THEN IF ~(skip_timesteps > 0
              /\ skip_timesteps <= ParseInt(StrRemove(timestep_respacing, ddim)))
         THEN "skip_with_init"
         ELSE IF ~PathExists(init_image.val) THEN "init_image_missing" ELSE "ok"
    ELSE IF ~(skip_timesteps = 0) THEN "skip_without_init" ELSE "ok"

\* "Check skip timesteps logic"
SkipSeedCheck(init_image, skip_timesteps, timestep_respacing) ==
    IF Truthy(init_image)
    THEN IF ~(skip_timesteps > 0
              /\ skip_timesteps < ParseInt(StrRemove(timestep_respacing, ddim)))
         THEN "skip_with_init"
         ELSE IF ~PathExists(init_image.val) THEN "init_image_missing" ELSE "ok"
    ELSE IF ~(skip_timesteps = 0) THEN "skip_without_init" ELSE "ok"

CheckpointsCheck(checkpoints_dir) ==
    IF ~PathIsDir(checkpoints_dir) THEN "checkpoints_dir_is_file"
    ELSE IF ~PathExists(checkpoints_dir) THEN "checkpoints_dir_missing"
    ELSE "ok"

\* the slip: the progressive ancestral loop whatever the respacing
SelectSampleLoopAncestral(timestep_respacing) == "p_sample_loop_progressive"

\* diffusion_sample_loop
SelectSampleLoop(timestep_respacing) ==
    IF StartsWith(timestep_respacing, ddim)
    THEN "ddim_sample_loop_progressive"
    ELSE "p_sample_loop_progressive"

\* imagenet_top_n evaluates len(prompt_min): a TypeError on None
RankRaises(prompt_min) == prompt_min.isNone

----------------------------------------------------------------------------
(* The diffusion library, as the specification describes it *)

\* diffusion.num_timesteps: the respaced step count T
RespacedSteps(timestep_respacing) == ParseInt(StrRemove(timestep_respacing, ddim))

\* the loop yields T - skip_timesteps snapshots ...
LoopLength(T, skip_timesteps) == T - skip_timesteps

\* ... and its k-th step (k = 0, 1, ...) is on timestep T - skip_timesteps - 1 - k
LoopTimestep(T, skip_timesteps, k) == T - skip_timesteps - 1 - k

----------------------------------------------------------------------------
(* main *)

SaveFrequencyOk(save_frequency, timestep_respacing) ==
    0 < save_frequency /\ save_frequency <= ParseInt(StrRemove(timestep_respacing, ddim))

\* cond_fn reads current_timestep of the enclosing clip_guided_diffusion
CondFnTimestep == cgd_current_timestep

\* if step % args.save_frequency == 0 or current_timestep == -1
ShouldSave(stp, save_frequency, current_timestep) ==
    stp % save_frequency = 0 \/ current_timestep = -1

OomNeedle == <<"CUDA", "out", "of", "memory">>

\* the slip: every RuntimeError is re-raised
IsOomReraiseAll(message) == FALSE

\* if "CUDA out of memory" in str(runtime_ex)
IsOom(message) == Contains(message, OomNeedle)

RespacingInputs == {r25, ddim \o r25, r50, <<"3", "0">>}
InitImageInputs == {NoneStr, Some(<<>>), Some(<<"seed.png">>), Some(<<"missing.png">>)}
PromptMinInputs == {NoneStr, Some(<<"dog">>)}
MessageInputs == {<<"CUDA", "out", "of", "memory", "Tried", "to", "allocate">>,
                  <<"CUDA", "error", "device", "side", "assert">>}

NoArgs == [timestep_respacing |-> r1000, init_image |-> NoneStr, skip_timesteps |-> 0,
           save_frequency |-> 5]

MainInit ==
    /\ pc = "parse_args"
    /\ args = NoArgs
    /\ exc = "none"
    /\ failedAssert = "none"
    /\ prefixDir = FALSE
    /\ outputsDir = FALSE
    /\ downloaded = FALSE
    /\ clipLoaded = FALSE
    /\ diffusionLoaded = FALSE
    /\ clip_scores = "none"
    /\ loopKind = "none"
    /\ num_timesteps = 0
    /\ cgd_current_timestep = 0
    /\ main_current_timestep = 0
    /\ yielded = 0
    /\ step = -1
    /\ loop_t = 0
    /\ bridge_t = 0
    /\ saved = {}
    /\ raised = <<>>
    /\ hintsPrinted = FALSE
    /\ outcome = "running"

GuideIdle ==
    /\ gcfg = [clip_guidance_scale |-> 1000, tv_scale |-> 100,
               prompt_min |-> NoneStr, min_weight10 |-> 1]
    /\ gin = [called |-> FALSE, dMax |-> 0, dMin |-> 0, dTv |-> 0, mean |-> 0,
              variance |-> 1]
    /\ grad10 = 0
    /\ mean10 = 0

RankIdle ==
    /\ rpc = "idle"
    /\ rin = [simP |-> [c \in 1..NumClasses |-> 0], simM |-> [c \in 1..NumClasses |-> 0],
              prompt_min |-> Some(<<>>), min_weight |-> 0, n |-> 1]
    /\ rout = [err |-> "none", classes |-> <<>>, probs |-> <<>>]

\* an exception leaves main()
Abort(kind, which) ==
    /\ pc' = "exited"
    /\ exc' = kind
    /\ failedAssert' = which
    /\ outcome' = "raised"

ParseArgs ==
    /\ pc = "parse_args"
    /\ \E r \in RespacingInputs, ii \in InitImageInputs, sk \in -1..MaxSkip,
          sf \in (0..MaxFreq) \cup {25, 26} :
          args' = [timestep_respacing |-> r, init_image |-> ii, skip_timesteps |-> sk,
                   save_frequency |-> sf]
    /\ pc' = "check_save_frequency"
    /\ UNCHANGED <<exc, failedAssert, prefixDir, outputsDir, downloaded, clipLoaded,
                   diffusionLoaded, clip_scores, loopKind, num_timesteps,
                   cgd_current_timestep, main_current_timestep, yielded, step, loop_t,
                   bridge_t, saved, raised, hintsPrinted, outcome>>
    /\ UNCHANGED <<guideVars, rankVars>>

CheckSaveFrequency ==
    /\ pc = "check_save_frequency"
    /\ IF SaveFrequencyOk(args.save_frequency, args.timestep_respacing)
       THEN pc' = "mkdir_prefix" /\ UNCHANGED <<exc, failedAssert, outcome>>
       ELSE Abort("AssertionError", "save_frequency")
    /\ UNCHANGED <<args, prefixDir, outputsDir, downloaded, clipLoaded,
                   diffusionLoaded, clip_scores, loopKind, num_timesteps,
                   cgd_current_timestep, main_current_timestep, yielded, step, loop_t,
                   bridge_t, saved, raised, hintsPrinted>>
    /\ UNCHANGED <<guideVars, rankVars>>

MkdirPrefix ==
    /\ pc = "mkdir_prefix"
    /\ prefixDir' = TRUE
    /\ pc' = "cgd_assert_config"
    /\ UNCHANGED <<args, exc, failedAssert, outputsDir, downloaded, clipLoaded,
                   diffusionLoaded, clip_scores, loopKind, num_timesteps,
                   cgd_current_timestep, main_current_timestep, yielded, step, loop_t,
                   bridge_t, saved, raised, hintsPrinted, outcome>>
    /\ UNCHANGED <<guideVars, rankVars>>

CgdAssertConfig ==
    /\ pc = "cgd_assert_config"
    /\ \E diffusion_steps \in {1000, 30}, clip_model_name \in {"ViT-B/32", "ViT-L/14"},
          image_size \in {128, 256, 100}, num_cutouts \in {0, 16},
          prompt \in {<<>>, <<"cat">>}, top_n \in {0, NumClasses, NumClasses + 1},
          min_weight10 \in {-1, 1, 11}, class_cond \in BOOLEAN :
          LET r == AssertConfig(args.timestep_respacing, diffusion_steps, clip_model_name,
                                image_size, num_cutouts, prompt, top_n, min_weight10,
                                class_cond)
          IN IF r = "ok"
             THEN pc' = "cgd_assert_skip" /\ UNCHANGED <<exc, failedAssert, outcome>>
             ELSE Abort("AssertionError", r)
    /\ UNCHANGED <<args, prefixDir, outputsDir, downloaded, clipLoaded,
                   diffusionLoaded, clip_scores, loopKind, num_timesteps,
                   cgd_current_timestep, main_current_timestep, yielded, step, loop_t,
                   bridge_t, saved, raised, hintsPrinted>>
    /\ UNCHANGED <<guideVars, rankVars>>

CgdAssertSkip ==
    /\ pc = "cgd_assert_skip"
    /\ LET r == SkipSeedCheck(args.init_image, args.skip_timesteps, args.timestep_respacing)
       IN IF r = "ok"
          THEN pc' = "cgd_assert_checkpoints" /\ UNCHANGED <<exc, failedAssert, outcome>>
          ELSE Abort("AssertionError", r)
    /\ UNCHANGED <<args, prefixDir, outputsDir, downloaded, clipLoaded,
                   diffusionLoaded, clip_scores, loopKind, num_timesteps,
                   cgd_current_timestep, main_current_timestep, yielded, step, loop_t,
                   bridge_t, saved, raised, hintsPrinted>>
    /\ UNCHANGED <<guideVars, rankVars>>

\* the slip: the checkpoint is downloaded before its directory is checked
CgdAssertCheckpointsAfterDownload ==
    /\ pc = "cgd_assert_checkpoints"
    /\ downloaded' = TRUE
    /\ \E checkpoints_dir \in {<<"checkpoints">>, <<"ckpt.pt">>, <<"nowhere">>} :
          LET r == CheckpointsCheck(checkpoints_dir)
          IN IF r = "ok"
             THEN pc' = "cgd_load_models" /\ UNCHANGED <<exc, failedAssert, outcome>>
             ELSE Abort("AssertionError", r)
    /\ UNCHANGED <<args, prefixDir, outputsDir, clipLoaded,
                   diffusionLoaded, clip_scores, loopKind, num_timesteps,
                   cgd_current_timestep, main_current_timestep, yielded, step, loop_t,
                   bridge_t, saved, raised, hintsPrinted>>
    /\ UNCHANGED <<guideVars, rankVars>>

CgdAssertCheckpoints ==
    /\ pc = "cgd_assert_checkpoints"
    /\ \E checkpoints_dir \in {<<"checkpoints">>, <<"ckpt.pt">>, <<"nowhere">>} :
          LET r == CheckpointsCheck(checkpoints_dir)
          IN IF r = "ok"
             THEN pc' = "cgd_load_models" /\ UNCHANGED <<exc, failedAssert, outcome>>
             ELSE Abort("AssertionError", r)
    /\ UNCHANGED <<args, prefixDir, outputsDir, downloaded, clipLoaded,
                   diffusionLoaded, clip_scores, loopKind, num_timesteps,
                   cgd_current_timestep, main_current_timestep, yielded, step, loop_t,
                   bridge_t, saved, raised, hintsPrinted>>
    /\ UNCHANGED <<guideVars, rankVars>>

\* download_guided_diffusion, clip.load
CgdLoadModels ==
    /\ pc = "cgd_load_models"
    /\ downloaded' = TRUE
    /\ clipLoaded' = TRUE
    /\ pc' = "cgd_rank"
    /\ UNCHANGED <<args, exc, failedAssert, prefixDir, outputsDir,
                   diffusionLoaded, clip_scores, loopKind, num_timesteps,
                   cgd_current_timestep, main_current_timestep, yielded, step, loop_t,
                   bridge_t, saved, raised, hintsPrinted, outcome>>
    /\ UNCHANGED <<guideVars, rankVars>>

\* clip_scores = imagenet_top_n(...) if class_score else None
CgdRank ==
    /\ pc = "cgd_rank"
    /\ \E class_score \in BOOLEAN, prompt_min \in PromptMinInputs :
          IF class_score
          THEN IF RankRaises(prompt_min)
               THEN Abort("TypeError", "none") /\ UNCHANGED clip_scores
               ELSE /\ clip_scores' = "table"
                    /\ pc' = "cgd_create_loop"
                    /\ UNCHANGED <<exc, failedAssert, outcome>>
          ELSE /\ pc' = "cgd_create_loop"
               /\ UNCHANGED <<clip_scores, exc, failedAssert, outcome>>
    /\ UNCHANGED <<args, prefixDir, outputsDir, downloaded, clipLoaded,
                   diffusionLoaded, loopKind, num_timesteps,
                   cgd_current_timestep, main_current_timestep, yielded, step, loop_t,
                   bridge_t, saved, raised, hintsPrinted>>
    /\ UNCHANGED <<guideVars, rankVars>>

\* load_guided_diffusion, current_timestep, cond_fn, diffusion_sample_loop(...)
CgdCreateLoop ==
    /\ pc = "cgd_create_loop"
    /\ diffusionLoaded' = TRUE
    /\ num_timesteps' = RespacedSteps(args.timestep_respacing)
    /\ cgd_current_timestep' = RespacedSteps(args.timestep_respacing) - 1
    /\ loopKind' = SelectSampleLoop(args.timestep_respacing)
    /\ pc' = "mkdir_outputs"
    /\ UNCHANGED <<args, exc, failedAssert, prefixDir, outputsDir, downloaded,
                   clipLoaded, clip_scores, main_current_timestep, yielded, step,
                   loop_t, bridge_t, saved, raised, hintsPrinted, outcome>>
    /\ UNCHANGED <<guideVars, rankVars>>

\* outputs_path.mkdir; try: current_timestep = diffusion.num_timesteps - 1
MkdirOutputs ==
    /\ pc = "mkdir_outputs"
    /\ outputsDir' = TRUE
    /\ main_current_timestep' = num_timesteps - 1
    /\ pc' = "sampling"
    /\ UNCHANGED <<args, exc, failedAssert, prefixDir, downloaded, clipLoaded,
                   diffusionLoaded, clip_scores, loopKind, num_timesteps,
                   cgd_current_timestep, yielded, step, loop_t,
                   bridge_t, saved, raised, hintsPrinted, outcome>>
    /\ UNCHANGED <<guideVars, rankVars>>

\* one iteration of "for step, sample in enumerate(cgd_samples)": the generator
\* runs one sampling step (calling cond_fn) and yields, then the loop body runs
LoopIteration ==
    /\ pc = "sampling"
    /\ yielded < LoopLength(num_timesteps, args.skip_timesteps)
    /\ loop_t' = LoopTimestep(num_timesteps, args.skip_timesteps, yielded)
    /\ bridge_t' = CondFnTimestep
    /\ yielded' = yielded + 1
    /\ step' = yielded
    /\ main_current_timestep' = main_current_timestep - 1
    /\ saved' = IF ShouldSave(yielded, args.save_frequency, main_current_timestep - 1)
                THEN saved \cup {yielded}
                ELSE saved
    /\ UNCHANGED <<pc, args, exc, failedAssert, prefixDir, outputsDir, downloaded,
                   clipLoaded, diffusionLoaded, clip_scores, loopKind, num_timesteps,
                   cgd_current_timestep, raised, hintsPrinted, outcome>>
    /\ UNCHANGED <<guideVars, rankVars>>

\* the generator is exhausted: the for loop, the try block and main() end
LoopExhausted ==
    /\ pc = "sampling"
    /\ yielded = LoopLength(num_timesteps, args.skip_timesteps)
    /\ pc' = "exited"
    /\ outcome' = "completed"
    /\ UNCHANGED <<args, exc, failedAssert, prefixDir, outputsDir, downloaded,
                   clipLoaded, diffusionLoaded, clip_scores, loopKind, num_timesteps,
                   cgd_current_timestep, main_current_timestep, yielded, step, loop_t,
                   bridge_t, saved, raised, hintsPrinted>>
    /\ UNCHANGED <<guideVars, rankVars>>

\* a sampling step raises RuntimeError(message); except RuntimeError as runtime_ex
StepRaisesRuntimeError ==
    /\ pc = "sampling"
    /\ yielded < LoopLength(num_timesteps, args.skip_timesteps)
    /\ \E message \in MessageInputs :
          /\ raised' = message
          /\ IF IsOom(message)
             THEN /\ hintsPrinted' = TRUE
                  /\ outcome' = "oom_handled"
                  /\ UNCHANGED exc
             ELSE /\ exc' = "RuntimeError"
                  /\ outcome' = "raised"
                  /\ UNCHANGED hintsPrinted
    /\ pc' = "exited"
    /\ UNCHANGED <<args, failedAssert, prefixDir, outputsDir, downloaded,
                   clipLoaded, diffusionLoaded, clip_scores, loopKind, num_timesteps,
                   cgd_current_timestep, main_current_timestep, yielded, step, loop_t,
                   bridge_t, saved>>
    /\ UNCHANGED <<guideVars, rankVars>>

Init == MainInit /\ GuideIdle /\ RankIdle

Next ==
    \/ ParseArgs
    \/ CheckSaveFrequency
    \/ MkdirPrefix
    \/ CgdAssertConfig
    \/ CgdAssertSkip
    \/ CgdAssertCheckpoints
    \/ CgdLoadModels
    \/ CgdRank
    \/ CgdCreateLoop
    \/ MkdirOutputs
    \/ LoopIteration
    \/ LoopExhausted
    \/ StepRaisesRuntimeError

Spec == Init /\ [][Next]_vars

----------------------------------------------------------------------------
(* cond_fn: the gradient handed to the sampling loop.                      *)
(* The image is one pixel; dMax, dMin and dTv are the derivatives with     *)
(* respect to it of max_dists.mean(0).sum(), min_dists.mean(0).sum() and   *)
(* tv_losses.sum(). min_weight is kept in tenths, so gradients are kept    *)
(* ten times their value.                                                  *)

\* text_min_embed = ... if prompt_min else None
HasTextMinEmbed(prompt_min) == Truthy(prompt_min)

\* the slip: the CLIP loss is added without its scale
CondFnGradient10Unscaled(cfg, dMax, dMin, dTv) ==
    LET dLosses10 == IF HasTextMinEmbed(cfg.prompt_min)
                     THEN 10 * dMax - cfg.min_weight10 * dMin
                     ELSE 10 * dMax
    IN -(dLosses10 + 10 * dTv * cfg.tv_scale)

\* loss = losses.sum() * clip_guidance_scale + tv_losses.sum() * tv_scale
\* return -th.autograd.grad(loss, x)[0]
CondFnGradient10(cfg, dMax, dMin, dTv) ==
    LET dLosses10 == IF HasTextMinEmbed(cfg.prompt_min)
                     THEN 10 * dMax - cfg.min_weight10 * dMin
                     ELSE 10 * dMax
    IN -(dLosses10 * cfg.clip_guidance_scale + 10 * dTv * cfg.tv_scale)

\* the sampling loop adds gradient x posterior variance to the model's mean
ConditionMean10(mean, variance, gradient10) == 10 * mean + variance * gradient10

GuideConfigs ==
    [clip_guidance_scale : {0, 1000}, tv_scale : {0, 100},
     prompt_min : {NoneStr, Some(<<>>), Some(<<"dog">>)}, min_weight10 : {1, 10}]

GuideInit ==
    /\ gcfg \in GuideConfigs
    /\ gin = [called |-> FALSE, dMax |-> 0, dMin |-> 0, dTv |-> 0, mean |-> 0,
              variance |-> 1]
    /\ grad10 = 0
    /\ mean10 = 0

\* one sampling step: the loop calls cond_fn and shifts the mean
CondFn ==
    /\ ~gin.called
    /\ \E dMax \in -MaxGrad..MaxGrad, dMin \in -MaxGrad..MaxGrad,
          dTv \in -MaxGrad..MaxGrad, mean \in -1..1, variance \in 1..2 :
          /\ gin' = [called |-> TRUE, dMax |-> dMax, dMin |-> dMin, dTv |-> dTv,
                     mean |-> mean, variance |-> variance]
          /\ grad10' = CondFnGradient10(gcfg, dMax, dMin, dTv)
          /\ mean10' = ConditionMean10(mean, variance,
                                       CondFnGradient10(gcfg, dMax, dMin, dTv))
    /\ UNCHANGED gcfg
    /\ UNCHANGED <<mainVars, rankVars>>

NextGuide == CondFn

InitGuide == MainInit /\ GuideInit /\ RankIdle

SpecGuide == InitGuide /\ [][NextGuide]_vars

----------------------------------------------------------------------------
(* imagenet_top_n: the class-weight table.                                 *)
(* simP[c] and simM[c] are the scaled dot products of the prompt and of    *)
(* the anti-prompt with class c, in units of ln 2; a probability is a      *)
(* fraction <<numerator, denominator>>.                                    *)

Classes == 1..NumClasses

RECURSIVE Pow2(_)
Pow2(k) == IF k <= 0 THEN 1 ELSE 2 * Pow2(k - 1)

RECURSIVE SumOver(_, _)
SumOver(f, S) ==
    IF S = {} THEN 0
    ELSE LET c == CHOOSE x \in S : TRUE IN f[c] + SumOver(f, S \ {c})

RatLeq(a, b) == a[1] * b[2] <= b[1] * a[2]
RatEq(a, b) == a[1] * b[2] = b[1] * a[2]

\* 100.0 * prompt_features @ imagenet_features.T, the anti-prompt subtracted
\* from prompt_features when len(prompt_min) > 0
Logits(in) ==
    IF Len(in.prompt_min.val) > 0
    THEN [c \in Classes |-> in.simP[c] - in.min_weight * in.simM[c]]
    ELSE [c \in Classes |-> in.simP[c]]

\* softmax(dim=-1)
Softmax(logits) ==
    LET lo == CHOOSE m \in {logits[c] : c \in Classes} :
                  \A c \in Classes : m <= logits[c]
        w == [c \in Classes |-> Pow2(logits[c] - lo)]
    IN [c \in Classes |-> <<w[c], SumOver(w, Classes)>>]

Injective(o) == \A i, j \in DOMAIN o : i # j => o[i] # o[j]

\* the slip: the n least probable classes, ascending (largest=False)
TopKSmallest(probs, n) ==
    {o \in [1..n -> Classes] :
        /\ Injective(o)
        /\ \A i \in 1..(n - 1) : RatLeq(probs[o[i]], probs[o[i + 1]])
        /\ \A c \in Classes \ {o[i] : i \in 1..n} : RatLeq(probs[o[n]], probs[c])}

\* topk(n, sorted=True): the orders it may return, equal values in any order
TopK(probs, n) ==
    {o \in [1..n -> Classes] :
        /\ Injective(o)
        /\ \A i \in 1..(n - 1) : RatLeq(probs[o[i + 1]], probs[o[i]])
        /\ \A c \in Classes \ {o[i] : i \in 1..n} : RatLeq(probs[c], probs[o[n]])}

\* th.distributions.Categorical(sorted_probs).probs: probs / probs.sum(-1)
CategoricalProbs(sorted_probs) ==
    LET num == [i \in DOMAIN sorted_probs |-> sorted_probs[i][1] * sorted_probs[1][2]]
        total == SumOver([i \in DOMAIN sorted_probs |-> sorted_probs[i][1]],
                         DOMAIN sorted_probs)
    IN [i \in DOMAIN sorted_probs |-> <<num[i], sorted_probs[1][2] * total>>]

\* the results imagenet_top_n may give
ImagenetTopN(in) ==
    IF in.prompt_min.isNone
    THEN {[err |-> "TypeError", classes |-> <<>>, probs |-> <<>>]}
    ELSE IF in.n > NumClasses
    THEN {[err |-> "RuntimeError", classes |-> <<>>, probs |-> <<>>]}
    ELSE LET text_probs == Softmax(Logits(in))
         IN {[err |-> "none",
              classes |-> o,
              probs |-> CategoricalProbs([i \in 1..in.n |-> text_probs[o[i]]])] :
                 o \in TopK(text_probs, in.n)}

ZeroSims == [c \in Classes |-> 0]

RankInit ==
    /\ rpc = "call"
    /\ rin \in [simP : [Classes -> 0..MaxSim], simM : [Classes -> 0..MaxSim],
                prompt_min : {NoneStr, Some(<<>>), Some(<<"dog">>)},
                min_weight : {0, 1}, n : 1..(NumClasses + 1)]
    /\ Truthy(rin.prompt_min) \/ (rin.simM = ZeroSims /\ rin.min_weight = 0)
    /\ rout = [err |-> "none", classes |-> <<>>, probs |-> <<>>]

RankCall ==
    /\ rpc = "call"
    /\ rout' \in ImagenetTopN(rin)
    /\ rpc' = "done"
    /\ UNCHANGED rin
    /\ UNCHANGED <<mainVars, guideVars>>

NextRank == RankCall

InitRank == MainInit /\ GuideIdle /\ RankInit

SpecRank == InitRank /\ [][NextRank]_vars

----------------------------------------------------------------------------
(* Properties of main() and clip_guided_diffusion(), checked under Spec *)

SeedSupplied == (~args.init_image.isNone) /\ args.init_image.val # <<>>

DdimRespacings ==
    {ddim \o r25, ddim \o r50, ddim \o r100, ddim \o r250, ddim \o r500, ddim \o r1000}

\* the respaced step count T of a supported timestep_respacing
StepCount(r) ==
    CASE r \in {r25, ddim \o r25} -> 25
      [] r \in {r50, ddim \o r50} -> 50
      [] OTHER -> 0

SkipInRange ==
    0 < args.skip_timesteps /\ args.skip_timesteps < StepCount(args.timestep_respacing)

ConfigAssertions ==
    {"timestep_respacing", "diffusion_steps", "clip_model_name", "image_size",
     "num_cutouts", "prompt", "top_n", "min_weight", "class_cond"}

\* clip_guided_diffusion has evaluated the skip/seed check
ReachedSkipCheck ==
    \/ pc \in {"cgd_assert_checkpoints", "cgd_load_models", "cgd_rank",
               "cgd_create_loop", "mkdir_outputs", "sampling"}
    \/ pc = "exited" /\ failedAssert \notin ConfigAssertions \cup {"save_frequency"}

SkipRejected == failedAssert \in {"skip_with_init", "skip_without_init"}

\* C1 (as stated): a seed image with 0 < skip_timesteps < T and a 'ddim<T>'
\* respacing raises a configuration error before any sampling step executes, and
\* a seeded run is only ever started on the ancestral loop.
C1_SeedWithDdimRejected ==
    /\ (SeedSupplied /\ SkipInRange /\ args.timestep_respacing \in DdimRespacings)
          => (loopKind = "none" /\ yielded = 0
              /\ (ReachedSkipCheck => exc = "AssertionError"))
    /\ (SeedSupplied /\ loopKind # "none") => loopKind = "p_sample_loop_progressive"

\* C1 (amended): a seed image with 0 < skip_timesteps < T and a 'ddim<T>'
\* respacing passes the skip/seed check, and every seeded run is started on the
\* loop its respacing names: the ddim loop for 'ddim<T>', the ancestral loop
\* otherwise.
C1_SeedWithDdimAccepted ==
    /\ (SeedSupplied /\ SkipInRange /\ args.timestep_respacing \in DdimRespacings)
          => ~SkipRejected
    /\ (SeedSupplied /\ loopKind # "none")
          => loopKind = IF args.timestep_respacing \in DdimRespacings
                        THEN "ddim_sample_loop_progressive"
                        ELSE "p_sample_loop_progressive"

C1_Witness ==
    /\ SeedSupplied /\ SkipInRange
    /\ args.timestep_respacing \in DdimRespacings
    /\ loopKind = "ddim_sample_loop_progressive"
    /\ yielded >= 1

\* C2: a seeded run with skip_timesteps in [1, T-1] yields exactly
\* T - skip_timesteps snapshots, and main's timestep counter is -1 when the last
\* snapshot has been consumed.
C2_SeededRunEndsAtMinusOne ==
    (outcome = "completed" /\ SeedSupplied)
        => /\ yielded = StepCount(args.timestep_respacing) - args.skip_timesteps
           /\ main_current_timestep = -1

\* C3: on every sampling step cond_fn uses the timestep of the step the loop is
\* on: in a run from pure noise the timestep it uses goes T-1, T-2, ..., 0 and
\* never differs from the loop's own.
C3_BridgeTimestepInLockstep ==
    (yielded >= 1 /\ args.skip_timesteps = 0)
        => /\ bridge_t = StepCount(args.timestep_respacing) - yielded
           /\ bridge_t = loop_t

OomMessage == <<"CUDA", "out", "of", "memory", "Tried", "to", "allocate">>
OtherMessage == <<"CUDA", "error", "device", "side", "assert">>

\* C5 (as stated): an out-of-memory failure in a sampling step is re-raised to the
\* host; the run never ends as if it had completed normally.
C5_OomReraised ==
    (raised = OomMessage /\ pc = "exited") => exc # "none"

\* C5 (amended): an out-of-memory failure in a sampling step is caught by main,
\* which prints the remediation hints and returns normally without re-raising;
\* every other RuntimeError of a step is re-raised to the host.
C5_OomHandledInMain ==
    /\ raised = OomMessage
          => (pc = "exited" /\ exc = "none" /\ hintsPrinted /\ outcome = "oom_handled")
    /\ raised = OtherMessage
          => (pc = "exited" /\ exc = "RuntimeError" /\ ~hintsPrinted
              /\ outcome = "raised")

C5_Witness ==
    raised = OomMessage /\ yielded >= 1 /\ hintsPrinted /\ exc = "none"

NothingLoaded ==
    /\ ~downloaded /\ ~clipLoaded /\ ~diffusionLoaded
    /\ loopKind = "none" /\ yielded = 0

\* C6 (as stated): every configuration error is reported before any model is
\* downloaded or loaded and before the loop starts, and no output directory has
\* been created.
C6_ConfigErrorNoPartialState ==
    exc = "AssertionError" => (NothingLoaded /\ ~outputsDir /\ ~prefixDir)

\* C6 (amended): every configuration error is reported before any model is
\* downloaded or loaded and before the loop starts, and the per-prompt output
\* directory has not been created; the prefix output directory has been created
\* by main unless the error is main's own save_frequency check.
C6_ConfigErrorBeforeModels ==
    exc = "AssertionError"
        => /\ NothingLoaded
           /\ ~outputsDir
           /\ prefixDir <=> (failedAssert # "save_frequency")

C6_Witness ==
    /\ exc = "AssertionError"
    /\ failedAssert = "checkpoints_dir_is_file"
    /\ prefixDir /\ NothingLoaded

\* C8: the skip/seed combination is accepted exactly when a seed image is
\* supplied and 0 < skip_timesteps < T, or none is supplied and
\* skip_timesteps = 0; every other combination is rejected with a configuration
\* error and no sampling loop is created.
C8_SkipSeedAcceptedExactly ==
    LET acceptable == \/ SeedSupplied /\ SkipInRange
                      \/ ~SeedSupplied /\ args.skip_timesteps = 0
    IN ReachedSkipCheck
          => /\ SkipRejected <=> ~acceptable
             /\ ~acceptable => (exc = "AssertionError" /\ loopKind = "none"
                                /\ pc = "exited")

C8_Witness ==
    /\ SeedSupplied
    /\ args.skip_timesteps = StepCount(args.timestep_respacing) - 1
    /\ loopKind # "none"
    /\ yielded = 1

\* C10: in every run that completes, the last snapshot the loop yields is handed
\* to log_image.
C10_LastSnapshotSaved ==
    outcome = "completed" => (yielded - 1) \in saved

----------------------------------------------------------------------------
(* Properties of cond_fn, checked under SpecGuide *)

NoAntiTarget == gcfg.prompt_min.isNone \/ gcfg.prompt_min.val = <<>>

\* C4 (as stated): with clip_guidance_scale = 0 and no anti-target prompt, at any
\* tv_scale, the gradient is zero on every step and the mean is the unguided mean.
C4_NoGuidanceZeroGradient ==
    (gcfg.clip_guidance_scale = 0 /\ NoAntiTarget)
        => (grad10 = 0 /\ mean10 = 10 * gin.mean)

\* C4 (amended): with clip_guidance_scale = 0, no anti-target prompt and
\* tv_scale = 0, the gradient is zero on every step and the mean is the unguided
\* mean; at any other tv_scale the gradient is minus tv_scale times the
\* derivative of the total-variation loss.
C4_NoGuidanceNoTvZeroGradient ==
    /\ (gcfg.clip_guidance_scale = 0 /\ NoAntiTarget /\ gcfg.tv_scale = 0)
          => (grad10 = 0 /\ mean10 = 10 * gin.mean)
    /\ (gcfg.clip_guidance_scale = 0 /\ NoAntiTarget)
          => grad10 = -(10 * gcfg.tv_scale * gin.dTv)

C4_Witness ==
    /\ gin.called
    /\ gcfg.clip_guidance_scale = 0 /\ NoAntiTarget /\ gcfg.tv_scale = 0
    /\ gin.dMax # 0 /\ gin.dTv # 0 /\ gin.mean # 0
    /\ grad10 = 0

----------------------------------------------------------------------------
(* Properties of imagenet_top_n, checked under SpecRank *)

Returned == rpc = "done" /\ rout.err = "none"

Min(a, b) == IF a <= b THEN a ELSE b

UniverseProbs == Softmax(Logits(rin))

TableSum ==
    SumOver([i \in DOMAIN rout.probs |-> rout.probs[i][1]], DOMAIN rout.probs)

\* C7 (as stated): the table has at most min(n, class_count) entries, strictly
\* descending, each the class's softmax probability over the whole class
\* universe, paired with the class that earned it.
C7_TableStrictSoftmax ==
    Returned
        => /\ Len(rout.classes) = Len(rout.probs)
           /\ Len(rout.probs) <= Min(rin.n, NumClasses)
           /\ \A i \in 1..(Len(rout.probs) - 1) :
                 ~RatLeq(rout.probs[i], rout.probs[i + 1])
           /\ \A i \in DOMAIN rout.probs :
                 RatEq(rout.probs[i], UniverseProbs[rout.classes[i]])

\* C7 (amended): the table has exactly n entries (n <= class_count), holds the n
\* most probable classes in non-increasing order of probability (equal
\* probabilities may be adjacent), each entry paired with its class, and each
\* probability is the class's softmax probability over the whole class universe
\* divided by the sum of the table's softmax probabilities, so the table sums
\* to 1.
C7_TableRenormalised ==
    Returned
        => /\ Len(rout.classes) = rin.n /\ Len(rout.probs) = rin.n
           /\ rin.n <= Min(rin.n, NumClasses)
           /\ Injective(rout.classes)
           /\ \A i \in 1..(rin.n - 1) : RatLeq(rout.probs[i + 1], rout.probs[i])
           /\ \A c \in Classes \ {rout.classes[i] : i \in 1..rin.n} :
                 RatLeq(UniverseProbs[c], UniverseProbs[rout.classes[rin.n]])
           /\ LET total == SumOver([i \in 1..rin.n |-> UniverseProbs[rout.classes[i]][1]],
                                   1..rin.n)
              IN \A i \in 1..rin.n :
                    RatEq(rout.probs[i], <<UniverseProbs[rout.classes[i]][1], total>>)
           /\ \A i \in 1..rin.n : rout.probs[i][2] = rout.probs[1][2]
           /\ TableSum = rout.probs[1][2]

C7_Witness ==
    /\ Returned
    /\ rin.n = 2
    /\ Truthy(rin.prompt_min) /\ rin.min_weight = 1
    /\ RatEq(rout.probs[1], rout.probs[2])
    /\ ~RatEq(rout.probs[1], UniverseProbs[rout.classes[1]])

\* C9: with class scoring enabled and prompt_min None, imagenet_top_n completes
\* without error and returns the table computed from the prompt alone.
C9_RankWithoutAntiPrompt ==
    (rpc = "done" /\ rin.prompt_min.isNone /\ rin.n <= NumClasses)
        => /\ rout.err = "none"
           /\ Len(rout.classes) = rin.n
           /\ \A i \in 1..(Len(rout.classes) - 1) :
                 rin.simP[rout.classes[i + 1]] <= rin.simP[rout.classes[i]]

====
